---- MODULE Spec2Model ----
(***************************************************************************)
(* XPlaneImport.run (src/XP_import.py): the line-oriented parse of one     *)
(* X-Plane OBJ8 file followed by the mesh loop, and XPlaneImport.execute,  *)
(* which runs it over the selected files.  Numeric fields are modelled as  *)
(* integers; a line is its keyword and the tokens after it.                *)
(***************************************************************************)
EXTENDS Integers, Sequences, FiniteSets, TLC

\* ---- bounds of the model ------------------------------------------------
MaxVerts == 2
MaxFaces == 9
MaxObjects == 2
MaxNest == 2
MaxCoord == 1
MaxLines == 3

VARIABLES
    pc,               \* "scan" (parse loop), "mesh" (mesh loop), "done", "fault";
                      \*   in a batch also "exec" (before the first file) and
                      \*   "finished" (execute has returned)
    file_no,          \* execute: how many of the selected files run was called for
    lines_read,       \* history: the lines of the current file processed so far
    done_log,         \* history: per file whose run returned, its lines and
                      \*   the buffers, descriptors and meshes it ended with
    origo,            \* the base origin handed to run
    line,             \* the tokens of the line processed last
    verts, uv, faces, normals,
    origin_temp, anim_nesting, a_trans, trans_available,
    objects,          \* the descriptors: <<obj_origin, obj_lst>>
    counter,          \* the mesh loop's counter
    meshes,           \* the calls made to createMeshFromData, in order
    vt_done,          \* history: number of VT lines processed to their end
    frame_log,        \* history, parallel to a_trans: per frame, origin_temp
                      \*   when the frame was pushed, and the number and the sum
                      \*   of the raw translations of the ANIM_trans lines in it
    multi_trans,      \* history: some frame received a second ANIM_trans
    underflow,        \* history: an ANIM_end came with no ANIM_begin open
    tris_log          \* history, parallel to objects: the TRIS line's offset,
                      \*   count and the length of faces at that line

vars == <<pc, origo, line, verts, uv, faces, normals, origin_temp, anim_nesting,
          a_trans, trans_available, objects, counter, meshes, vt_done, frame_log,
          multi_trans, underflow, tris_log, file_no, lines_read, done_log>>

batch == <<file_no, lines_read, done_log>>

geom == <<verts, uv, faces, normals, vt_done>>
anim == <<origin_temp, anim_nesting, a_trans, trans_available, frame_log, multi_trans,
          underflow>>
objs == <<objects, tris_log>>
mesh == <<counter, meshes>>

\* ---- vectors ------------------------------------------------------------
Zero == <<0, 0, 0>>

VAdd(a, b) == <<a[1] + b[1], a[2] + b[2], a[3] + b[3]>>

VSub(a, b) == <<a[1] - b[1], a[2] - b[2], a[3] - b[3]>>

Abs(n) == IF n < 0 THEN 0 - n ELSE n

InCoord(v) == \A i \in 1..3 : Abs(v[i]) <= MaxCoord

RECURSIVE SumVec(_)
SumVec(s) == IF s = <<>> THEN Zero ELSE VAdd(s[1], SumVec(Tail(s)))

\* ---- pure helpers -------------------------------------------------------
\* a variant of VertConv negating the other swapped component
VertConvNegateLast(tok) == <<tok[1], tok[3], tok[2] * (-1)>>

\* lines 153-155: (vx, vy, vz) of a VT line's tokens
VertConv(tok) == <<tok[1], tok[3] * (-1), tok[2]>>

\* a variant of NormalConv negating the other swapped component
NormalConvNegateLast(tok) == <<tok[4], tok[6], tok[5] * (-1)>>

\* lines 158-160: (vnx, vny, vnz) of a VT line's tokens
NormalConv(tok) == <<tok[4], tok[6] * (-1), tok[5]>>

\* a variant of TransConv negating the other swapped component
TransConvNegateLast(tok) == <<tok[1], tok[3], tok[2] * (-1)>>

\* lines 176-179: o_t of an ANIM_trans line's tokens
TransConv(tok) == <<tok[1], tok[3] * (-1), tok[2]>>

\* Python's clamping of a slice bound i for a list of length n
Clamp(n, i) == IF i < 0 THEN (IF i + n < 0 THEN 0 ELSE i + n)
               ELSE IF i > n THEN n ELSE i

\* a variant of PySlice reading its end bound as a count from the list's start
PySliceEndIsCount(s, a, b) ==
    LET lo == Clamp(Len(s), a)
        hi == Clamp(Len(s), b - a)
    IN  IF lo < hi THEN SubSeq(s, lo + 1, hi) ELSE <<>>

\* s[a:b]
PySlice(s, a, b) ==
    LET lo == Clamp(Len(s), a)
        hi == Clamp(Len(s), b)
    IN  IF lo < hi THEN SubSeq(s, lo + 1, hi) ELSE <<>>

\* the 1-based position of Python index i in a list of length n (valid when in 1..n)
PyPos(n, i) == IF i < 0 THEN n + i + 1 ELSE i + 1

\* tuple(zip(*[iter(obj)]*3))
Triplets(s) ==
    [k \in 1..(Len(s) \div 3) |-> <<s[3 * k - 2], s[3 * k - 1], s[3 * k]>>]

Last(s) == s[Len(s)]

Front(s) == SubSeq(s, 1, Len(s) - 1)

\* ---- initial state --------------------------------------------------------
Origos == {Zero, <<2, 2, 2>>}

Init ==
    /\ pc = "scan"
    /\ origo \in Origos
    /\ line = [kw |-> "", f |-> <<>>]
    /\ verts = <<>>
    /\ uv = <<>>
    /\ faces = <<>>
    /\ normals = <<>>
    /\ origin_temp = Zero
    /\ anim_nesting = 0
    /\ a_trans = <<Zero>>
    /\ trans_available = FALSE
    /\ objects = <<>>
    /\ counter = 0
    /\ meshes = <<>>
    /\ vt_done = 0
    /\ frame_log = <<[begin_origin |-> Zero, n_trans |-> 0, raw |-> Zero]>>
    /\ multi_trans = FALSE
    /\ underflow = FALSE
    /\ tris_log = <<>>
    /\ file_no = 1
    /\ lines_read = <<>>
    /\ done_log = <<>>

\* ---- the lines of a file (inputs) -----------------------------------------
VTRecords == {<<1, 2, 3, 4, 5, 6, 7, 8>>, <<3, 1, 2, 3, 1, 2, 0, 1>>}

\* lines cut short before the position, the normal or the UV pair is complete
VTShortLens == {2, 5, 7}

VTToks == VTRecords \cup {SubSeq(<<1, 2, 3, 4, 5, 6, 7, 8>>, 1, k) : k \in VTShortLens}

IdxLines == {[kw |-> "IDX", f |-> <<0, 1, 2>>],
             [kw |-> "IDX10", f |-> <<3, 4, 5, 6, 7, 8>>]}

TrisToks == {<<0, 3>>, <<3, 6>>, <<5, 10>>, <<0, -3>>, <<0, 4>>, <<0>>}

TextureLines == {[kw |-> "TEXTURE", f |-> <<>>],
                 [kw |-> "TEXTURE_NORMAL", f |-> <<1>>]}

OtherKeywords == {"ATTR_LOD"}

\* ---- the parse loop, one action per kind of line ----------------------------
\* lines 118-119: a line with no token
Blank ==
    /\ pc = "scan"
    /\ line' = [kw |-> "", f |-> <<>>]
    /\ UNCHANGED <<pc, origo, geom, anim, objs, mesh>>

\* a variant of Other rejecting the keyword
OtherRejected(kw) ==
    /\ pc = "scan"
    /\ line' = [kw |-> kw, f |-> <<>>]
    /\ pc' = "fault"
    /\ UNCHANGED <<origo, geom, anim, objs, mesh>>

\* a keyword none of the tests of lines 121-190 matches
Other(kw) ==
    /\ pc = "scan"
    /\ line' = [kw |-> kw, f |-> <<>>]
    /\ UNCHANGED <<pc, origo, geom, anim, objs, mesh>>

\* lines 121-150: the texture keywords touch the material only; line[1]
\* (line[2] for TEXTURE_DRAPED_NORMAL) must exist, and loading may fail
Texture(l) ==
    /\ pc = "scan"
    /\ line' = l
    /\ LET need == IF l.kw = "TEXTURE_DRAPED_NORMAL" THEN 2 ELSE 1
       IN  IF Len(l.f) < need THEN pc' = "fault" ELSE pc' \in {"scan", "fault"}
    /\ UNCHANGED <<origo, geom, anim, objs, mesh>>

\* a variant of AppendUV storing the two fields as two entries
AppendUVFlat(us, tok) == Append(Append(us, <<tok[7]>>), <<tok[8]>>)

AppendVert(vs, tok) == Append(vs, VertConv(tok))

AppendNormal(ns, tok) == Append(ns, NormalConv(tok))

AppendUV(us, tok) == Append(us, <<tok[7], tok[8]>>)

\* lines 152-166
VT(tok) ==
    /\ pc = "scan"
    /\ line' = [kw |-> "VT", f |-> tok]
    /\ verts' = IF Len(tok) >= 3 THEN AppendVert(verts, tok) ELSE verts
    /\ normals' = IF Len(tok) >= 6 THEN AppendNormal(normals, tok) ELSE normals
    /\ uv' = IF Len(tok) >= 8 THEN AppendUV(uv, tok) ELSE uv
    /\ vt_done' = IF Len(tok) >= 8 THEN vt_done + 1 ELSE vt_done
    /\ pc' = IF Len(tok) >= 8 THEN "scan" ELSE "fault"
    /\ UNCHANGED <<origo, faces, anim, objs, mesh>>

\* a variant of IDX putting the new indices in front of the buffer
IDXPrepend(l) ==
    /\ pc = "scan"
    /\ line' = l
    /\ faces' = l.f \o faces
    /\ UNCHANGED <<pc, origo, verts, uv, normals, vt_done, anim, objs, mesh>>

\* lines 168-169
IDX(l) ==
    /\ pc = "scan"
    /\ line' = l
    /\ faces' = faces \o l.f
    /\ UNCHANGED <<pc, origo, verts, uv, normals, vt_done, anim, objs, mesh>>

\* lines 171-173
ANIM_begin ==
    /\ pc = "scan"
    /\ line' = [kw |-> "ANIM_begin", f |-> <<>>]
    /\ anim_nesting' = anim_nesting + 1
    /\ a_trans' = Append(a_trans, Zero)
    /\ frame_log' = Append(frame_log, [begin_origin |-> origin_temp, n_trans |-> 0,
                                         raw |-> Zero])
    /\ UNCHANGED <<pc, origo, geom, origin_temp, trans_available, multi_trans, underflow,
                   objs, mesh>>

\* a variant of Accumulate that overwrites the running origin
AccumulateOverwrite(o, o_t) == o_t

\* line 181
Accumulate(o, o_t) == VAdd(o, o_t)

\* lines 175-182
ANIM_trans(tok) ==
    /\ pc = "scan"
    /\ line' = [kw |-> "ANIM_trans", f |-> tok]
    /\ IF Len(tok) < 3
       THEN /\ pc' = "fault"
            /\ UNCHANGED anim
       ELSE LET o_t == TransConv(tok)
                pos == PyPos(Len(a_trans), anim_nesting)
            IN  IF pos \notin 1..Len(a_trans)
                THEN /\ pc' = "fault"
                     /\ UNCHANGED anim
                ELSE /\ pc' = "scan"
                     /\ a_trans' = [a_trans EXCEPT ![pos] = o_t]
                     /\ origin_temp' = Accumulate(origin_temp, o_t)
                     /\ trans_available' = TRUE
                     /\ frame_log' = [frame_log EXCEPT ![pos].n_trans = @ + 1,
                                                        ![pos].raw = VAdd(@, tok)]
                     /\ multi_trans' = (multi_trans \/ frame_log[pos].n_trans >= 1)
                     /\ UNCHANGED <<anim_nesting, underflow>>
    /\ UNCHANGED <<origo, geom, objs, mesh>>

\* lines 184-188
ANIM_end ==
    /\ pc = "scan"
    /\ line' = [kw |-> "ANIM_end", f |-> <<>>]
    /\ anim_nesting' = anim_nesting - 1
    /\ underflow' = (underflow \/ anim_nesting <= 0)
    /\ IF a_trans = <<>>
       THEN /\ pc' = "fault"
            /\ UNCHANGED <<origin_temp, a_trans, trans_available, frame_log>>
       ELSE /\ pc' = "scan"
            /\ origin_temp' = VSub(origin_temp, Last(a_trans))
            /\ a_trans' = Front(a_trans)
            /\ frame_log' = Front(frame_log)
            /\ trans_available' = IF anim_nesting - 1 = 0 THEN FALSE ELSE trans_available
    /\ UNCHANGED <<origo, geom, multi_trans, objs, mesh>>

\* lines 190-196
TRIS(tok) ==
    /\ pc = "scan"
    /\ line' = [kw |-> "TRIS", f |-> tok]
    /\ IF Len(tok) < 2
       THEN /\ pc' = "fault"
            /\ UNCHANGED objs
       ELSE LET tris_offset == tok[1]
                tris_count == tok[2]
                obj_lst == PySlice(faces, tris_offset, tris_offset + tris_count)
                obj_origin == IF trans_available THEN origin_temp ELSE origo
            IN  /\ pc' = "scan"
                /\ objects' = Append(objects, <<obj_origin, obj_lst>>)
                /\ tris_log' = Append(tris_log, [offset |-> tris_offset,
                                                   count |-> tris_count,
                                                   nfaces |-> Len(faces)])
    /\ UNCHANGED <<origo, geom, anim, mesh>>

\* ---- after the last line: lines 198-206 -------------------------------------
EndOfFile ==
    /\ pc = "scan"
    /\ pc' = "mesh"
    /\ counter' = 0
    /\ UNCHANGED <<origo, line, geom, anim, objs, meshes>>

\* a variant of CreateMesh advancing the counter before naming the mesh
CreateMeshCountFirst ==
    /\ pc = "mesh"
    /\ counter < Len(objects)
    /\ LET orig == objects[counter + 1][1]
           obj == objects[counter + 1][2]
       IN  meshes' = Append(meshes, [name |-> counter + 1, origin |-> orig,
                                     faces |-> Triplets(obj), nverts |-> Len(verts)])
    /\ counter' = counter + 1
    /\ UNCHANGED <<pc, origo, line, geom, anim, objs>>

\* a variant of CreateMesh assembling each descriptor as soon as it exists
CreateMeshDuringScan ==
    /\ pc \in {"scan", "mesh"}
    /\ counter < Len(objects)
    /\ LET orig == objects[counter + 1][1]
           obj == objects[counter + 1][2]
       IN  meshes' = Append(meshes, [name |-> counter, origin |-> orig,
                                     faces |-> Triplets(obj), nverts |-> Len(verts)])
    /\ counter' = counter + 1
    /\ UNCHANGED <<pc, origo, line, geom, anim, objs>>

\* lines 201-204: one turn of the mesh loop
CreateMesh ==
    /\ pc = "mesh"
    /\ counter < Len(objects)
    /\ LET orig == objects[counter + 1][1]
           obj == objects[counter + 1][2]
       IN  meshes' = Append(meshes, [name |-> counter, origin |-> orig,
                                     faces |-> Triplets(obj), nverts |-> Len(verts)])
    /\ counter' = counter + 1
    /\ UNCHANGED <<pc, origo, line, geom, anim, objs>>

\* line 206
Return ==
    /\ pc = "mesh"
    /\ counter = Len(objects)
    /\ pc' = "done"
    /\ UNCHANGED <<origo, line, geom, anim, objs, mesh>>

\* ---- files of animation blocks and one draw directive ------------------------
\* (a TRIS line leaves the animation state alone, so a second directive would
\* meet no animation state the first cannot meet)
AnimTransToks == {<<1, 0, 0>>, <<0, 1, 0>>, <<1, 0>>}

AnimTrisToks == {<<0, 3>>}

NextAnim ==
    /\ \/ anim_nesting < MaxNest /\ ANIM_begin
       \/ \E tok \in AnimTransToks : ANIM_trans(tok) /\ InCoord(origin_temp')
       \/ ANIM_end
       \/ objects = <<>> /\ \E tok \in AnimTrisToks : TRIS(tok)
       \/ EndOfFile
       \/ CreateMesh
       \/ Return
    /\ UNCHANGED batch

SpecAnim == Init /\ [][NextAnim]_vars

\* ---- files of vertex records, index records and draw directives ---------------
NextGeom ==
    /\ \/ Blank
       \/ \E kw \in OtherKeywords : Other(kw)
       \/ \E l \in TextureLines : Texture(l)
       \/ Len(verts) < MaxVerts /\ \E tok \in VTToks : VT(tok)
       \/ \E l \in IdxLines : Len(faces) + Len(l.f) <= MaxFaces /\ IDX(l)
       \/ Len(objects) < MaxObjects /\ \E tok \in TrisToks : TRIS(tok)
       \/ EndOfFile
       \/ CreateMesh
       \/ Return
    /\ UNCHANGED batch

\* lines 45-47: execute hands run the base origin (0, 0, 0)
InitExecute == Init /\ origo = Zero

SpecGeom == InitExecute /\ [][NextGeom]_vars

\* ---- files mixing every kind of line ---------------------------------------------
\* (each frame receives at most one ANIM_trans)
FileVTToks == {<<1, 2, 3, 4, 5, 6, 7, 8>>}

FileTransToks == {<<1, 2, 3>>}

FileTrisToks == {<<0, 3>>}

NextFile ==
    /\ \/ Blank
       \/ \E kw \in OtherKeywords : Other(kw)
       \/ Len(verts) < MaxVerts /\ \E tok \in FileVTToks : VT(tok)
       \/ \E l \in IdxLines : Len(faces) + Len(l.f) <= MaxFaces /\ IDX(l)
       \/ anim_nesting = 0 /\ ANIM_begin
       \/ \E tok \in FileTransToks : ANIM_trans(tok) /\ ~multi_trans'
       \/ ANIM_end
       \/ Len(objects) < MaxObjects /\ \E tok \in FileTrisToks : TRIS(tok)
       \/ EndOfFile
       \/ CreateMesh
       \/ Return
    /\ UNCHANGED batch

SpecFile == InitExecute /\ [][NextFile]_vars

\* ---- execute: run over the selected files, lines 45-49 -------------------------
\* self.files
Files == <<"a.obj", "b.obj">>

\* a variant of Run keeping one index buffer for all files
RunKeepFaces ==
    /\ pc \in {"exec", "done"}
    /\ file_no < Len(Files)
    /\ file_no' = file_no + 1
    /\ lines_read' = <<>>
    /\ \E readable \in BOOLEAN :
        IF readable
        THEN /\ pc' = "scan"
             /\ origo' = Zero
             /\ line' = [kw |-> "", f |-> <<>>]
             /\ verts' = <<>>
             /\ uv' = <<>>
             /\ normals' = <<>>
             /\ origin_temp' = Zero
             /\ anim_nesting' = 0
             /\ a_trans' = <<Zero>>
             /\ trans_available' = FALSE
             /\ objects' = <<>>
             /\ counter' = 0
             /\ meshes' = <<>>
             /\ vt_done' = 0
             /\ frame_log' = <<[begin_origin |-> Zero, n_trans |-> 0, raw |-> Zero]>>
             /\ multi_trans' = FALSE
             /\ underflow' = FALSE
             /\ tris_log' = <<>>
             /\ UNCHANGED faces
        ELSE /\ pc' = "fault"
             /\ UNCHANGED <<origo, line, geom, anim, objs, mesh>>
    /\ UNCHANGED done_log

\* lines 46-47 and 95-113: the loop takes the next file and calls run on it
\* with the base origin (0, 0, 0); open or readlines may fail, else the locals
\* of run are created anew
Run ==
    /\ pc \in {"exec", "done"}
    /\ file_no < Len(Files)
    /\ file_no' = file_no + 1
    /\ lines_read' = <<>>
    /\ \E readable \in BOOLEAN :
        IF readable
        THEN /\ pc' = "scan"
             /\ origo' = Zero
             /\ line' = [kw |-> "", f |-> <<>>]
             /\ verts' = <<>>
             /\ uv' = <<>>
             /\ faces' = <<>>
             /\ normals' = <<>>
             /\ origin_temp' = Zero
             /\ anim_nesting' = 0
             /\ a_trans' = <<Zero>>
             /\ trans_available' = FALSE
             /\ objects' = <<>>
             /\ counter' = 0
             /\ meshes' = <<>>
             /\ vt_done' = 0
             /\ frame_log' = <<[begin_origin |-> Zero, n_trans |-> 0, raw |-> Zero]>>
             /\ multi_trans' = FALSE
             /\ underflow' = FALSE
             /\ tris_log' = <<>>
        ELSE /\ pc' = "fault"
             /\ UNCHANGED <<origo, line, geom, anim, objs, mesh>>
    /\ UNCHANGED done_log

\* line 49: the loop has run every file
Finished ==
    /\ pc \in {"exec", "done"}
    /\ file_no = Len(Files)
    /\ pc' = "finished"
    /\ UNCHANGED <<origo, line, geom, anim, objs, mesh, batch>>

\* what the returning run of a file leaves behind
Outcome ==
    [lines |-> lines_read, verts |-> verts, normals |-> normals, uv |-> uv,
     faces |-> faces, objects |-> objects, meshes |-> meshes]

BatchVTToks == {<<1, 2, 3, 4, 5, 6, 7, 8>>}

BatchIdxLines == {[kw |-> "IDX", f |-> <<0, 1, 2>>]}

BatchTransToks == {<<1, 2, 3>>}

BatchTrisToks == {<<0, 3>>, <<0>>}

NextBatch ==
    \/ Run
    \/ /\ Len(lines_read) < MaxLines
       /\ \/ \E tok \in BatchVTToks : VT(tok)
          \/ \E l \in BatchIdxLines : IDX(l)
          \/ \E tok \in BatchTransToks : ANIM_trans(tok)
          \/ ANIM_end
          \/ \E tok \in BatchTrisToks : TRIS(tok)
       /\ lines_read' = Append(lines_read, line')
       /\ UNCHANGED <<file_no, done_log>>
    \/ EndOfFile /\ UNCHANGED batch
    \/ CreateMesh /\ UNCHANGED batch
    \/ /\ Return
       /\ done_log' = Append(done_log, Outcome)
       /\ UNCHANGED <<file_no, lines_read>>
    \/ Finished

\* the operator before execute is called
InitBatch ==
    /\ pc = "exec"
    /\ file_no = 0
    /\ lines_read = <<>>
    /\ done_log = <<>>
    /\ origo = Zero
    /\ line = [kw |-> "", f |-> <<>>]
    /\ verts = <<>>
    /\ uv = <<>>
    /\ faces = <<>>
    /\ normals = <<>>
    /\ origin_temp = Zero
    /\ anim_nesting = 0
    /\ a_trans = <<Zero>>
    /\ trans_available = FALSE
    /\ objects = <<>>
    /\ counter = 0
    /\ meshes = <<>>
    /\ vt_done = 0
    /\ frame_log = <<[begin_origin |-> Zero, n_trans |-> 0, raw |-> Zero]>>
    /\ multi_trans = FALSE
    /\ underflow = FALSE
    /\ tris_log = <<>>

SpecBatch == InitBatch /\ [][NextBatch]_vars

\* ---- properties ---------------------------------------------------------------
\* the line processed last was a TRIS line that appended its descriptor
TrisDone == line.kw = "TRIS" /\ Len(line.f) >= 2 /\ objects # <<>>

\* C1: transform-stack balance. While no ANIM_end has come without an open
\* ANIM_begin, origin_temp right after an ANIM_end equals its value right before
\* the matching ANIM_begin, whatever the number of ANIM_trans lines in the block.
C1_StackBalance ==
    [][(ANIM_end /\ ~underflow /\ anim_nesting >= 1)
          => origin_temp' = Last(frame_log).begin_origin]_vars

\* the image of a raw translation under the axis conversion of the parser
AxisImage(v) == <<v[1], 0 - v[3], v[2]>>

\* the raw translations of the open frames, outermost first
RawTrans(log) == [i \in 1..Len(log) |-> log[i].raw]

\* every animation block so far carried at most one ANIM_trans, and every block
\* still open carries exactly one
OneTransPerBlock ==
    /\ ~multi_trans
    /\ \A i \in 2..Len(frame_log) : frame_log[i].n_trans = 1

C3_OriginByNesting ==
    TrisDone => Last(objects)[1] = (IF anim_nesting > 0 THEN origin_temp ELSE origo)

\* the triangles of directive t over the index buffer: count/3 consecutive triplets
SlicedTriangles(t) ==
    [j \in 1..(t.count \div 3) |-> <<faces[t.offset + 3 * j - 2],
                                     faces[t.offset + 3 * j - 1],
                                     faces[t.offset + 3 * j]>>]

InRange(t) == t.offset >= 0 /\ t.count % 3 = 0 /\ t.offset + t.count <= t.nfaces

\* C4 as stated: index slicing. For a TRIS line with offset >= 0, count a multiple
\* of 3 and offset+count within the index buffer, the mesh gets exactly the
\* count/3 consecutive triplets starting at offset.
C4_IndexSlicingAnyCount ==
    \A k \in 1..Len(meshes) :
        InRange(tris_log[k]) => meshes[k].faces = SlicedTriangles(tris_log[k])

\* C4 amended: the same, for a count that is also >= 0.
C4_IndexSlicing ==
    \A k \in 1..Len(meshes) :
        (InRange(tris_log[k]) /\ tris_log[k].count >= 0)
            => meshes[k].faces = SlicedTriangles(tris_log[k])

\* C4 witness: buffer [0..8] and TRIS 3 6 give the triangles (3,4,5), (6,7,8)
C4_Witness ==
    \E k \in 1..Len(meshes) :
        /\ tris_log[k] = [offset |-> 3, count |-> 6, nfaces |-> 9]
        /\ faces = <<0, 1, 2, 3, 4, 5, 6, 7, 8>>
        /\ meshes[k].faces = <<<<3, 4, 5>>, <<6, 7, 8>>>>

\* C5: an out-of-range directive is recoverable. A TRIS line whose offset+count
\* exceeds the length of the index buffer at that line appends no descriptor.
C5_OutOfRangeSkipped ==
    \A k \in 1..Len(objects) :
        tris_log[k].offset + tris_log[k].count <= tris_log[k].nfaces

\* C6: no mesh is assembled from a TRIS line whose count, or whose sliced index
\* run, is not a multiple of 3.
C6_NoPartialTriangleMesh ==
    \A k \in 1..Len(meshes) :
        tris_log[k].count % 3 = 0 /\ Len(objects[k][2]) % 3 = 0

\* C7: stack underflow. In every reachable state the nesting depth is >= 0 and
\* the root frame is still on the stack (an ANIM_end with no ANIM_begin open
\* aborts the file instead of popping the root frame).
C7_NoUnderflow == anim_nesting >= 0 /\ Len(a_trans) >= 1

\* C8: vertex buffer alignment. After every fully processed line, and through
\* mesh assembly, the position, normal and UV sequences all have the length of
\* the number of VT lines processed.
C8_BuffersAligned ==
    pc # "fault" => Len(verts) = vt_done /\ Len(normals) = vt_done /\ Len(uv) = vt_done

\* C8 witness: a parse of two VT lines that reached the end of mesh assembly
C8_Witness == pc = "done" /\ vt_done = 2 /\ Len(verts) = 2 /\ meshes # <<>>

\* C9: index validity. Every vertex index of every triangle handed to the mesh
\* assembler is a valid index into the vertex arrays.
C9_IndexValid ==
    \A k \in 1..Len(meshes) :
        \A j \in 1..Len(meshes[k].faces) :
            \A i \in 1..3 :
                0 <= meshes[k].faces[j][i] /\ meshes[k].faces[j][i] < Len(verts)

\* the line processed last was a VT line, processed to its end
VTStored == line.kw = "VT" /\ Len(line.f) >= 8 /\ pc # "fault"

C11_SameConversion ==
    VTStored => /\ Last(normals) = VertConv(SubSeq(line.f, 4, 6))
                /\ Last(uv) = <<line.f[7], line.f[8]>>

\* C11 witness: the triple (3, 1, 2) given as position and as normal is stored
\* as (3, -2, 1) in both buffers, with the UV pair (0, 1) as given
C11_Witness ==
    /\ VTStored
    /\ line.f = <<3, 1, 2, 3, 1, 2, 0, 1>>
    /\ Last(verts) = <<3, -2, 1>>
    /\ Last(normals) = <<3, -2, 1>>
    /\ Last(uv) = <<0, 1>>

\* the index run of the k-th TRIS line, sliced from the buffer as it was then
RunOf(t) == PySlice(SubSeq(faces, 1, t.nfaces), t.offset, t.offset + t.count)

\* C12: output sequence. At the end of a parse the meshes correspond one-to-one
\* to the TRIS lines in file order: the k-th mesh (0-based) is built from the
\* k-th descriptor, carries its origin and triangles, and is numbered k.
C12_OutputSequence ==
    /\ Len(meshes) = counter
    /\ counter <= Len(objects)
    /\ Len(objects) = Len(tris_log)
    /\ pc = "done" => Len(meshes) = Len(tris_log)
    /\ \A k \in 1..Len(meshes) :
        /\ meshes[k].name = k - 1
        /\ meshes[k].origin = objects[k][1]
        /\ meshes[k].faces = Triplets(RunOf(tris_log[k]))

\* C12 witness: two TRIS lines with different runs, assembled in file order
C12_Witness ==
    /\ pc = "done"
    /\ Len(meshes) = 2
    /\ tris_log[1].offset # tris_log[2].offset
    /\ meshes[1].faces # meshes[2].faces
    /\ meshes[1].name = 0
    /\ meshes[2].name = 1

\* C13: malformed short lines do not fault. A VT, ANIM_trans or TRIS line with
\* fewer tokens than the keyword needs is skipped and parsing continues.
ShortLine ==
    \/ line.kw = "VT" /\ Len(line.f) < 8
    \/ line.kw = "ANIM_trans" /\ Len(line.f) < 3
    \/ line.kw = "TRIS" /\ Len(line.f) < 2

C13_ShortLineSkipped == ShortLine => pc # "fault"

\* C17: cumulative-origin invariant. In every state of a parse origin_temp is
\* the vector sum of the frames held on the transform stack a_trans.
C17_OriginIsStackSum == pc # "fault" => origin_temp = SumVec(a_trans)

\* C19: scan-then-assemble ordering. No mesh is handed to the mesh assembler
\* before the last line has been processed, so a parse that aborts on a fault
\* has assembled no mesh, even for TRIS lines that preceded the fault.
C19_ScanThenAssemble == pc \in {"scan", "fault"} => meshes = <<>>

\* C19 witness: a parse aborted after a TRIS line, with no mesh assembled
C19_Witness == pc = "fault" /\ objects # <<>> /\ meshes = <<>>

\* C20: translation conversion matches vertex conversion. The frame an
\* ANIM_trans line records is its three fields under the axis conversion of a
\* VT line's position fields.
TransStored == line.kw = "ANIM_trans" /\ Len(line.f) >= 3 /\ pc # "fault"

C20_TransLikeVertex ==
    TransStored => a_trans[PyPos(Len(a_trans), anim_nesting)] = VertConv(line.f)

\* C20 witness: ANIM_trans 1 2 3 inside a block records (1, -3, 2), the stored
\* position of a vertex given as 1 2 3
C20_Witness ==
    /\ TransStored
    /\ anim_nesting >= 1
    /\ line.f = <<1, 2, 3>>
    /\ Last(a_trans) = <<1, -3, 2>>
    /\ Last(a_trans) = VertConv(<<1, 2, 3, 4, 5, 6, 7, 8>>)

\* the keywords the tests of the line loop compare the first token with
RecognisedKeywords ==
    {"TEXTURE", "TEXTURE_DRAPED", "TEXTURE_LIT", "TEXTURE_NORMAL",
     "TEXTURE_DRAPED_NORMAL", "VT", "IDX10", "IDX", "ANIM_begin", "ANIM_trans",
     "ANIM_end", "TRIS"}

\* C14: unknown keywords and blank lines are no-ops. A line that is blank or
\* whose first token is no recognised keyword leaves the vertex, normal, UV and
\* index buffers, the transform stack, the nesting depth, the cumulative
\* origin, the trans_available flag and the descriptor list unchanged, and the
\* parse goes on.
C14_UnknownIsNoOp ==
    [][(pc = "scan" /\ pc' # "mesh" /\ line'.kw \notin RecognisedKeywords)
        => /\ pc' = "scan"
           /\ UNCHANGED <<verts, normals, uv, faces, a_trans, anim_nesting,
                          origin_temp, trans_available, objects>>]_vars

\* C14 witness: an unknown keyword met with every part of the state in use
C14_Witness ==
    /\ pc = "scan"
    /\ line.kw = "ATTR_LOD"
    /\ verts # <<>>
    /\ faces # <<>>
    /\ objects # <<>>
    /\ anim_nesting = 1
    /\ origin_temp # Zero
    /\ trans_available

IsPrefix(s, t) == Len(s) <= Len(t) /\ SubSeq(t, 1, Len(s)) = s

\* C18: descriptor immutability and append-only buffers. No line changes a
\* descriptor already in the list, and every line only extends the position,
\* normal, UV and index buffers at their end.
C18_AppendOnly ==
    [][/\ IsPrefix(objects, objects')
       /\ IsPrefix(verts, verts')
       /\ IsPrefix(normals, normals')
       /\ IsPrefix(uv, uv')
       /\ IsPrefix(faces, faces')]_vars

\* C18 witness: a descriptor taken inside a translated block, still as it was
\* after the block has ended, a second TRIS line and a later IDX10 line
C18_Witness ==
    /\ Len(objects) = 2
    /\ objects[1] = <<<<1, -3, 2>>, <<0, 1, 2>>>>
    /\ origin_temp = Zero
    /\ line.kw = "IDX10"
    /\ faces = <<0, 1, 2, 3, 4, 5, 6, 7, 8>>
    /\ Len(verts) = 2

\* the state lines 101-110 give the locals of run
RunLocalsFresh ==
    /\ verts = <<>>
    /\ uv = <<>>
    /\ faces = <<>>
    /\ normals = <<>>
    /\ origin_temp = Zero
    /\ anim_nesting = 0
    /\ a_trans = <<Zero>>
    /\ ~trans_available
    /\ objects = <<>>

\* C15: per-file independence. In a batch the parse of every file starts from
\* the same fresh buffers, stack, nesting, origin and flag whatever was parsed
\* before it, and two files of the batch with the same lines end with the same
\* buffers, descriptors and meshes.
C15_FileIndependence ==
    /\ (pc = "scan" /\ lines_read = <<>>) => RunLocalsFresh
    /\ \A i, j \in 1..Len(done_log) :
        done_log[i].lines = done_log[j].lines => done_log[i] = done_log[j]

\* C15 witness: the second file repeats the first, whose parse left indices, a
\* translated origin and a descriptor behind
C15_Witness ==
    /\ Len(done_log) = 2
    /\ done_log[2].lines = <<[kw |-> "IDX", f |-> <<0, 1, 2>>],
                             [kw |-> "ANIM_trans", f |-> <<1, 2, 3>>],
                             [kw |-> "TRIS", f |-> <<0, 3>>]>>
    /\ done_log[1].lines = done_log[2].lines
    /\ done_log[2].objects = <<<<<<1, -3, 2>>, <<0, 1, 2>>>>>>
    /\ done_log[2].faces = <<0, 1, 2>>

\* C16: batch continuation after a fatal error. When the import of a file
\* that is not the last of the batch has failed, the batch goes on: run is
\* called for the next file.
C16_BatchContinues == (pc = "fault" /\ file_no < Len(Files)) => ENABLED Run

====
